---- MODULE Spec2Model ----
(***************************************************************************)
(* A model of jupyter_client/kernelspec.py: discovery (find_kernel_specs,  *)
(* get_kernel_spec), loading (KernelSpec.from_resource_dir, to_dict) and   *)
(* installation (install_kernel_spec) of kernel specs over a filesystem.   *)
(*                                                                         *)
(* A file name is a sequence of character codes, so that str.lower() is    *)
(* computed character by character.  A path is a sequence whose first      *)
(* element names a fixed base directory ("user", "sys", "ipy", "stage")    *)
(* and whose other elements are file names.  The filesystem is a partial   *)
(* function from the existing paths to their nodes.                        *)
(***************************************************************************)
EXTENDS Integers, Sequences, FiniteSets, TLC

VARIABLES
    fs,           \* the filesystem: existing path -> node
    kernel_dirs,  \* KernelSpecManager.kernel_dirs: sequence of directories
    whitelist,    \* KernelSpecManager.whitelist: set of names
    ret,          \* what the last operation was and what it returned or raised
    trail         \* the last install_kernel_spec calls, oldest first

vars == <<fs, kernel_dirs, whitelist, ret, trail>>

(***************************************************************************)
(* Bounds of the model.                                                    *)
(***************************************************************************)
MaxDirs == 2      \* longest kernel_dirs list drawn
MaxTrail == 3     \* install calls SpecReinstall remembers in trail

(***************************************************************************)
(* Names.  "ir", "IR", "Ir" differ in case only; "py" is another kernel.   *)
(***************************************************************************)
ir == <<105, 114>>
IR == <<73, 82>>
Ir == <<73, 114>>
py == <<112, 121>>
zz == <<122, 122>>
KERNEL_JSON == <<107, 101, 114, 110, 101, 108, 46, 106, 115, 111, 110>>
LOGO == <<108, 111, 103, 111>>
NoName == <<>>    \* kernel_name=None (or ""): both are falsy in the code

\* str.lower() on one (ASCII) character
LowerChar(c) == IF c \in 65..90 THEN c + 32 ELSE c

\* str.lower()
Lower(s) == [i \in DOMAIN s |-> LowerChar(s[i])]

(***************************************************************************)
(* The filesystem (os.path, os.listdir, shutil).                           *)
(***************************************************************************)
DirNode == [kind |-> "dir"]
FileNode(data) == [kind |-> "file", data |-> data]

\* os.path.join(path, name); joining "" leaves the same directory ("path/")
pjoin(path, name) == IF name = <<>> THEN path ELSE Append(path, name)

\* os.path.isdir
isdir(F, p) == p \in DOMAIN F /\ F[p].kind = "dir"

\* os.path.isfile
isfile(F, p) == p \in DOMAIN F /\ F[p].kind = "file"

IsPrefix(p, q) == Len(p) <= Len(q) /\ SubSeq(q, 1, Len(p)) = p

\* os.listdir(p): the names of the entries of directory p
listdir(F, p) == {q[Len(p) + 1] : q \in {r \in DOMAIN F : Len(r) = Len(p) + 1 /\ IsPrefix(p, r)}}

Restrict(F, S) == [p \in S |-> F[p]]

\* shutil.rmtree(p): p and everything below it is gone
rmtree(F, p) == Restrict(F, {q \in DOMAIN F : ~IsPrefix(p, q)})

(***************************************************************************)
(* kernel.json contents.  A JSON value is [t |-> its type, n |-> which     *)
(* value of that type]; n = 0 is the empty list / string / object.  A file *)
(* holds either a JSON object (a function from keys to values) or text     *)
(* that json.load rejects.                                                 *)
(***************************************************************************)
Val(t, n) == [t |-> t, n |-> n]
JsonObject(obj) == [parse |-> "object", obj |-> obj]
NotJson == [parse |-> "error"]

\* the trait declarations of class KernelSpec: List(), Unicode(), Dict()
TraitType == [argv |-> "list", display_name |-> "str", language |-> "str",
              env |-> "dict", resource_dir |-> "str"]

\* a trait's default value: List() -> [], Unicode() -> "", Dict() -> {}
TraitDefault(key) == Val(TraitType[key], 0)

\* KernelSpec(resource_dir=resource_dir, **kernel_dict): a key given twice is
\* a TypeError at the call; a trait rejects a value of another type; a key
\* that names no trait sets no trait.
KernelSpec(resource_dir, kernel_dict) ==
    IF "resource_dir" \in DOMAIN kernel_dict
    THEN [out |-> "TypeError"]
    ELSE IF \E k \in DOMAIN kernel_dict \cap DOMAIN TraitType :
                kernel_dict[k].t # TraitType[k]
    THEN [out |-> "TraitError"]
    ELSE [out |-> "ok",
          spec |-> [k \in DOMAIN TraitType |->
                      IF k = "resource_dir" THEN resource_dir
                      ELSE IF k \in DOMAIN kernel_dict THEN kernel_dict[k]
                      ELSE TraitDefault(k)]]

\* KernelSpec.from_resource_dir
from_resource_dir(F, resource_dir) ==
    LET kernel_file == pjoin(resource_dir, KERNEL_JSON)
    IN  IF ~isfile(F, kernel_file) THEN [out |-> "IOError"]
        ELSE IF F[kernel_file].data.parse # "object" THEN [out |-> "ValueError"]
        ELSE KernelSpec(resource_dir, F[kernel_file].data.obj)

\* KernelSpec.to_dict
to_dict(self) ==
    [argv |-> self.argv, env |-> self.env,
     display_name |-> self.display_name, language |-> self.language]

(***************************************************************************)
(* Discovery.  A dict is a function from its keys.  os.listdir returns the *)
(* entries in arbitrary order, so when two entries of one directory have   *)
(* the same lowercased name either may be the one the dict comprehension   *)
(* keeps: _list_kernels_in and find_kernel_specs are the SETS of dicts the *)
(* code can return.                                                        *)
(***************************************************************************)
EmptyDict == [k \in {} |-> <<>>]

\* a faulty dict.update: a key already present keeps its value
update_keeps_first(d, e) == [k \in DOMAIN d \cup DOMAIN e |-> IF k \in DOMAIN d THEN d[k] ELSE e[k]]

\* dict.update
update(d, e) == [k \in DOMAIN d \cup DOMAIN e |-> IF k \in DOMAIN e THEN e[k] ELSE d[k]]

\* a faulty _is_kernel_dir: kernel.json is not looked for
_is_kernel_dir_any(F, path) == isdir(F, path)

_is_kernel_dir(F, path) == isdir(F, path) /\ isfile(F, pjoin(path, KERNEL_JSON))

\* a faulty _list_kernels_in: the names are not lowercased
_list_kernels_in_raw(F, dir) ==
    IF ~isdir(F, dir) THEN {EmptyDict}
    ELSE LET kernels == {f \in listdir(F, dir) : _is_kernel_dir(F, pjoin(dir, f))}
         IN  {[f \in kernels |-> pjoin(dir, f)]}

_list_kernels_in(F, dir) ==
    IF ~isdir(F, dir) THEN {EmptyDict}
    ELSE LET kernels == {f \in listdir(F, dir) : _is_kernel_dir(F, pjoin(dir, f))}
             keys == {Lower(f) : f \in kernels}
         IN  {d \in [keys -> {pjoin(dir, f) : f \in kernels}] :
                \A k \in keys : \E f \in kernels : Lower(f) = k /\ d[k] = pjoin(dir, f)}

\* the loop of find_kernel_specs: d.update(_list_kernels_in(kernel_dir)) in list order
RECURSIVE MergeDirs(_, _)
MergeDirs(F, dirs) ==
    IF dirs = <<>> THEN {EmptyDict}
    ELSE {update(x[1], x[2]) :
            x \in MergeDirs(F, SubSeq(dirs, 1, Len(dirs) - 1))
                  \X _list_kernels_in(F, dirs[Len(dirs)])}

\* a faulty filter: the whitelist is ignored
Filter_off(d, wl) == d

\* the whitelist filter of find_kernel_specs
Filter(d, wl) ==
    IF wl # {} THEN [name \in {n \in DOMAIN d : n \in wl} |-> d[name]] ELSE d

find_kernel_specs(F, dirs, wl) == {Filter(d, wl) : d \in MergeDirs(F, dirs)}

\* a faulty get_kernel_spec: the name is looked up as passed
get_kernel_spec_exact(F, dirs, wl, kernel_name) ==
    {[d |-> d,
      res |-> IF kernel_name \in DOMAIN d
              THEN from_resource_dir(F, d[kernel_name])
              ELSE [out |-> "NoSuchKernel", name |-> kernel_name]] :
        d \in find_kernel_specs(F, dirs, wl)}

\* get_kernel_spec: what it returns or raises, for each dict find_kernel_specs can give
get_kernel_spec(F, dirs, wl, kernel_name) ==
    {[d |-> d,
      res |-> IF Lower(kernel_name) \in DOMAIN d
              THEN from_resource_dir(F, d[Lower(kernel_name)])
              ELSE [out |-> "NoSuchKernel", name |-> kernel_name]] :
        d \in find_kernel_specs(F, dirs, wl)}

(***************************************************************************)
(* Installation.  A source_dir argument is [path |-> the directory it      *)
(* names, sep |-> whether it is written with a trailing separator].        *)
(***************************************************************************)
user_kernel_dir == <<"user">>          \* <data_dir>/kernels
SYSTEM_KERNELS == <<"sys">>            \* SYSTEM_JUPYTER_PATH[0]/kernels

\* os.path.basename: what follows the last separator
basename(source_dir) ==
    IF source_dir.sep THEN <<>> ELSE source_dir.path[Len(source_dir.path)]

\* a faulty _get_destination_dir: user is ignored
_get_destination_dir_system(kernel_name, user) == pjoin(SYSTEM_KERNELS, kernel_name)

_get_destination_dir(kernel_name, user) ==
    IF user THEN pjoin(user_kernel_dir, kernel_name)
    ELSE pjoin(SYSTEM_KERNELS, kernel_name)

\* the path that q, found below src, is copied to below dst
Moved(src, dst, q) == dst \o SubSeq(q, Len(src) + 1, Len(q))

\* shutil.copytree(src, dst): lists src, makes dst with os.makedirs (which
\* needs dst not to exist and makes the missing directories above it), then
\* copies every entry.  Returns the filesystem after it and how it ended.
copytree(F, src, dst) ==
    LET above == {SubSeq(dst, 1, i) : i \in 1..(Len(dst) - 1)}
        copied == {q \in DOMAIN F : IsPrefix(src, q)}
        made == {Moved(src, dst, q) : q \in copied}
    IN  IF src \notin DOMAIN F THEN [fs |-> F, out |-> "ENOENT"]
        ELSE IF ~isdir(F, src) THEN [fs |-> F, out |-> "ENOTDIR"]
        ELSE IF dst \in DOMAIN F THEN [fs |-> F, out |-> "EEXIST"]
        ELSE IF \E a \in above : isfile(F, a) THEN [fs |-> F, out |-> "ENOTDIR"]
        ELSE [fs |-> [p \in DOMAIN F \cup above \cup made |->
                        IF p \in made
                        THEN F[CHOOSE q \in copied : Moved(src, dst, q) = p]
                        ELSE IF p \in DOMAIN F THEN F[p] ELSE DirNode],
              out |-> "ok"]

\* a faulty install_kernel_spec: an existing destination is never removed
install_kernel_spec_keeps(F, source_dir, kernel_name, user, replace) ==
    LET name1 == IF kernel_name = NoName THEN basename(source_dir) ELSE kernel_name
        destination == _get_destination_dir(Lower(name1), user)
        r == copytree(F, source_dir.path, destination)
    IN  [destination |-> destination, fs |-> r.fs, out |-> r.out]

\* install_kernel_spec: the destination it computes, the filesystem it
\* leaves and how it ended
install_kernel_spec(F, source_dir, kernel_name, user, replace) ==
    LET name1 == IF kernel_name = NoName THEN basename(source_dir) ELSE kernel_name
        name2 == Lower(name1)
        destination == _get_destination_dir(name2, user)
        F1 == IF replace /\ isdir(F, destination) THEN rmtree(F, destination) ELSE F
        r == copytree(F1, source_dir.path, destination)
    IN  [destination |-> destination, fs |-> r.fs, out |-> r.out]

\* the tree below p, with the paths taken relative to p
Tree(F, p) ==
    LET below == {q \in DOMAIN F : IsPrefix(p, q)}
    IN  [s \in {SubSeq(q, Len(p) + 1, Len(q)) : q \in below} |-> F[p \o s]]

(***************************************************************************)
(* The filesystems and configurations the specifications start from.       *)
(***************************************************************************)
ipy == <<"ipy">>                       \* <ipython_dir>/kernels: never created here
stage == <<"stage">>                   \* where kernel specs wait to be installed

\* two kernel.json contents that differ, for telling copies apart
DocA == JsonObject([argv |-> Val("list", 1), display_name |-> Val("str", 1)])
DocB == JsonObject([argv |-> Val("list", 2), language |-> Val("str", 1)])

MkFs(entries) == [p \in {e[1] : e \in entries} |-> (CHOOSE e \in entries : e[1] = p)[2]]

\* the entries of a child p of a given shape
ChildEntries(p, shape) ==
    CASE shape = "none" -> {}
      [] shape = "file" -> {<<p, FileNode(NotJson)>>}
      [] shape = "dir"  -> {<<p, DirNode>>, <<pjoin(p, LOGO), FileNode(NotJson)>>}
      [] shape = "kdir" -> {<<p, DirNode>>, <<pjoin(p, KERNEL_JSON), FileNode(DocA)>>}
      [] shape = "jdir" -> {<<p, DirNode>>, <<pjoin(p, KERNEL_JSON), DirNode>>}

\* the entries of a base directory: absent, a plain file, or a directory
\* whose children have the shapes kids gives them
RootEntries(root, layout) ==
    CASE layout.kind = "none" -> {}
      [] layout.kind = "file" -> {<<root, FileNode(NotJson)>>}
      [] layout.kind = "dir"  ->
           {<<root, DirNode>>} \cup
           UNION {ChildEntries(pjoin(root, n), layout.kids[n]) : n \in DOMAIN layout.kids}

NoKids == [n \in {} |-> "none"]
Layouts(shapes) ==
    {[kind |-> "none", kids |-> NoKids], [kind |-> "file", kids |-> NoKids]} \cup
    {[kind |-> "dir", kids |-> k] :
        k \in {f \in [DOMAIN shapes -> UNION {shapes[n] : n \in DOMAIN shapes}] :
                 \A n \in DOMAIN shapes : f[n] \in shapes[n]}}

\* user_kernel_dir: every kind of child, two of them differing in case only
UserLayouts ==
    Layouts((ir :> {"none", "dir", "kdir"}) @@ (IR :> {"none", "kdir", "jdir"})
            @@ (py :> {"none", "file", "kdir"}))

\* the system kernels directory: kernel directories only
SysLayouts ==
    Layouts((ir :> {"none", "kdir"}) @@ (py :> {"none", "kdir"}))

SearchDirs == {user_kernel_dir, SYSTEM_KERNELS, ipy}
DirLists == UNION {[1..n -> SearchDirs] : n \in 0..MaxDirs}
Whitelists == {{}, {ir}, {IR, py}}
LookupNames == {ir, IR, Ir, py, zz}

(***************************************************************************)
(* Operations.                                                             *)
(***************************************************************************)
\* KernelSpecManager.find_kernel_specs()
FindKernelSpecs ==
    /\ \E d \in find_kernel_specs(fs, kernel_dirs, whitelist) :
          ret' = [op |-> "find", d |-> d]
    /\ UNCHANGED <<fs, kernel_dirs, whitelist, trail>>

\* KernelSpecManager.get_kernel_spec(kernel_name)
GetKernelSpec(kernel_name) ==
    /\ \E r \in get_kernel_spec(fs, kernel_dirs, whitelist, kernel_name) :
          ret' = [op |-> "get", kernel_name |-> kernel_name, d |-> r.d, res |-> r.res]
    /\ UNCHANGED <<fs, kernel_dirs, whitelist, trail>>

\* KernelSpec.from_resource_dir(resource_dir).to_dict()
LoadToDict(resource_dir) ==
    /\ LET r == from_resource_dir(fs, resource_dir)
       IN  ret' = IF r.out = "ok"
                  THEN [op |-> "load", resource_dir |-> resource_dir, out |-> "ok",
                        dict |-> to_dict(r.spec)]
                  ELSE [op |-> "load", resource_dir |-> resource_dir, out |-> r.out]
    /\ UNCHANGED <<fs, kernel_dirs, whitelist, trail>>

\* KernelSpecManager.install_kernel_spec(source_dir, kernel_name, user, replace);
\* ret.call records the arguments, the destination computed and how it ended
InstallKernelSpec(source_dir, kernel_name, user, replace) ==
    \E r \in {install_kernel_spec(fs, source_dir, kernel_name, user, replace)} :
        /\ fs' = r.fs
        /\ ret' = [op |-> "install",
                   call |-> [source_dir |-> source_dir, kernel_name |-> kernel_name,
                             user |-> user, replace |-> replace,
                             destination |-> r.destination, out |-> r.out]]
        /\ UNCHANGED <<kernel_dirs, whitelist>>

\* someone rewrites the kernel.json of the staged kernel spec
EditSource ==
    LET f == pjoin(pjoin(stage, Ir), KERNEL_JSON)
    IN  /\ isfile(fs, f)
        /\ fs' = [fs EXCEPT ![f] = FileNode(IF fs[f].data = DocA THEN DocB ELSE DocA)]
        /\ ret' = [op |-> "edit"]
        /\ UNCHANGED <<kernel_dirs, whitelist, trail>>

(***************************************************************************)
(* SpecFind: discovery over every drawn filesystem and configuration.      *)
(***************************************************************************)
InitFind ==
    /\ \E lu \in UserLayouts, ls \in SysLayouts :
          fs = MkFs(RootEntries(user_kernel_dir, lu) \cup RootEntries(SYSTEM_KERNELS, ls))
    /\ kernel_dirs \in DirLists
    /\ whitelist \in Whitelists
    /\ ret = [op |-> "init"]
    /\ trail = <<>>

NextFind ==
    \/ FindKernelSpecs
    \/ \E n \in LookupNames : GetKernelSpec(n)

SpecFind == InitFind /\ [][NextFind]_vars

(***************************************************************************)
(* SpecLoad: loading every drawn kernel.json.                              *)
(***************************************************************************)
JsonKeys == {"argv", "env", "display_name", "language", "resource_dir", "codemirror_mode"}
JsonValues == {Val("list", 1), Val("str", 1), Val("dict", 1)}
JsonObjects == UNION {[keys -> JsonValues] : keys \in SUBSET JsonKeys}
LoadDir == pjoin(user_kernel_dir, ir)

InitLoad ==
    /\ \E entries \in {{}, {<<pjoin(LoadDir, KERNEL_JSON), FileNode(NotJson)>>}} \cup
                      {{<<pjoin(LoadDir, KERNEL_JSON), FileNode(JsonObject(obj))>>} :
                          obj \in JsonObjects} :
          fs = MkFs({<<user_kernel_dir, DirNode>>, <<LoadDir, DirNode>>} \cup entries)
    /\ kernel_dirs = <<user_kernel_dir>>
    /\ whitelist = {}
    /\ ret = [op |-> "init"]
    /\ trail = <<>>

NextLoad ==
    \/ LoadToDict(LoadDir)
    \/ \E n \in {IR, py} : GetKernelSpec(n)

SpecLoad == InitLoad /\ [][NextLoad]_vars

(***************************************************************************)
(* Spec: any sequence of installs into the user and the system kernels     *)
(* directory, interleaved with discovery.  trail holds the last call.      *)
(***************************************************************************)
Source(path, sep) == [path |-> path, sep |-> sep]

\* the staging directory: a kernel spec Ir (kernel.json and a logo) and a
\* directory py that is no kernel spec (no kernel.json)
StageEntries ==
    {<<stage, DirNode>>,
     <<pjoin(stage, Ir), DirNode>>,
     <<pjoin(pjoin(stage, Ir), KERNEL_JSON), FileNode(DocA)>>,
     <<pjoin(pjoin(stage, Ir), LOGO), FileNode(NotJson)>>,
     <<pjoin(stage, py), DirNode>>,
     <<pjoin(pjoin(stage, py), LOGO), FileNode(NotJson)>>}

SourceDirs ==
    {Source(pjoin(stage, Ir), FALSE), Source(pjoin(stage, Ir), TRUE)}
InstallNames == {NoName, IR, py}

InstallUserLayouts ==
    Layouts((IR :> {"none", "kdir"})) \ {[kind |-> "file", kids |-> NoKids]}

ReinstallUserLayouts ==
    Layouts((IR :> {"none", "kdir"}))

InstallSysLayouts ==
    {[kind |-> "none", kids |-> NoKids], [kind |-> "dir", kids |-> (ir :> "kdir")]}

InstallConfigs ==
    {<<<<user_kernel_dir, SYSTEM_KERNELS>>, {}>>, <<<<SYSTEM_KERNELS, user_kernel_dir>>, {}>>,
     <<<<SYSTEM_KERNELS>>, {}>>, <<<<user_kernel_dir>>, {py}>>}

Init ==
    /\ \E lu \in InstallUserLayouts, ls \in InstallSysLayouts :
          fs = MkFs(StageEntries \cup RootEntries(user_kernel_dir, lu)
                    \cup RootEntries(SYSTEM_KERNELS, ls))
    /\ \E c \in InstallConfigs : kernel_dirs = c[1] /\ whitelist = c[2]
    /\ ret = [op |-> "init"]
    /\ trail = <<>>

Next ==
    \/ \E s \in SourceDirs, n \in InstallNames, u \in BOOLEAN, rep \in BOOLEAN :
          /\ InstallKernelSpec(s, n, u, rep)
          /\ trail' = <<ret'.call>>
    \/ FindKernelSpecs
    \/ \E n \in {ir, Ir} : GetKernelSpec(n)

Spec == Init /\ [][Next]_vars

(***************************************************************************)
(* SpecReinstall: one staged kernel spec installed again and again, while  *)
(* its kernel.json is edited.  trail holds the last MaxTrail consecutive    *)
(* calls that agree on source_dir and user.                                *)
(***************************************************************************)
Extend(tr, call) ==
    LET same == tr # <<>> /\ tr[Len(tr)].source_dir = call.source_dir
                          /\ tr[Len(tr)].user = call.user
        all == IF same THEN Append(tr, call) ELSE <<call>>
    IN  IF Len(all) > MaxTrail THEN Tail(all) ELSE all

InitReinstall ==
    /\ \E lu \in ReinstallUserLayouts, ls \in InstallSysLayouts :
          fs = MkFs(StageEntries \cup RootEntries(user_kernel_dir, lu)
                    \cup RootEntries(SYSTEM_KERNELS, ls))
    /\ kernel_dirs = <<user_kernel_dir>>
    /\ whitelist = {}
    /\ ret = [op |-> "init"]
    /\ trail = <<>>

NextReinstall ==
    \/ \E s \in {pjoin(stage, Ir), pjoin(stage, zz)}, u \in BOOLEAN, rep \in BOOLEAN :
          /\ InstallKernelSpec(Source(s, FALSE), Ir, u, rep)
          /\ trail' = Extend(trail, ret'.call)
    \/ EditSource

SpecReinstall == InitReinstall /\ [][NextReinstall]_vars

(***************************************************************************)
(* Vocabulary of the properties, stated on the filesystem itself.          *)
(***************************************************************************)
IsUpper(c) == c \in 65..90
IsLowerCase(s) == \A i \in DOMAIN s : ~IsUpper(s[i])
EqIgnoreCase(a, b) ==
    /\ Len(a) = Len(b)
    /\ \A i \in DOMAIN a : \/ a[i] = b[i]
                           \/ IsUpper(a[i]) /\ b[i] = a[i] + 32
                           \/ IsUpper(b[i]) /\ a[i] = b[i] + 32

Names == {ir, IR, Ir, py, zz}
LowerNames == {n \in Names : IsLowerCase(n)}

\* p is a directory that holds a file kernel.json
KernelDirAt(p) ==
    /\ p \in DOMAIN fs /\ fs[p].kind = "dir"
    /\ Append(p, KERNEL_JSON) \in DOMAIN fs /\ fs[Append(p, KERNEL_JSON)].kind = "file"

\* the kernel directories that are immediate children of dir
KernelsOf(dir) == {p \in DOMAIN fs : Len(p) = Len(dir) + 1 /\ IsPrefix(dir, p) /\ KernelDirAt(p)}

\* those whose name is n up to case
KernelsNamed(dir, n) == {p \in KernelsOf(dir) : EqIgnoreCase(p[Len(p)], n)}

\* the positions of kernel_dirs whose directory holds a kernel named n
Holding(n) == {i \in DOMAIN kernel_dirs : KernelsNamed(kernel_dirs[i], n) # {}}

\* the lowercase names discovery can find
Discovered == {n \in LowerNames : Holding(n) # {}}

Last(S) == CHOOSE i \in S : \A j \in S : j <= i

(***************************************************************************)
(* C6: every entry (k, p) of a mapping find_kernel_specs returns has p an  *)
(* immediate child of a directory of kernel_dirs, p a directory holding a  *)
(* file kernel.json, and k the lowercase form of p's last component; a     *)
(* kernel_dirs entry that is no directory adds nothing, and the call       *)
(* always returns a mapping.                                               *)
(***************************************************************************)
C6_EntriesAreKernelDirs ==
    /\ find_kernel_specs(fs, kernel_dirs, whitelist) # {}
    /\ ret.op = "find" =>
         /\ \A k \in DOMAIN ret.d :
               /\ \E i \in DOMAIN kernel_dirs : ret.d[k] \in KernelsOf(kernel_dirs[i])
               /\ IsLowerCase(k)
               /\ EqIgnoreCase(k, ret.d[k][Len(ret.d[k])])
         /\ (\A i \in DOMAIN kernel_dirs : ~isdir(fs, kernel_dirs[i])) => DOMAIN ret.d = {}

\* a mapping with an entry was returned although a listed directory does not
\* exist, another holds a plain file and a directory without kernel.json
C6_Witness ==
    /\ ret.op = "find" /\ DOMAIN ret.d # {}
    /\ \E i \in DOMAIN kernel_dirs : kernel_dirs[i] \notin DOMAIN fs
    /\ isfile(fs, pjoin(user_kernel_dir, py))
    /\ isdir(fs, pjoin(user_kernel_dir, ir)) /\ ~KernelDirAt(pjoin(user_kernel_dir, ir))
    /\ isdir(fs, pjoin(pjoin(user_kernel_dir, IR), KERNEL_JSON))

(***************************************************************************)
(* C3: with a non-empty whitelist the keys returned are exactly the        *)
(* discovered names that are in the whitelist, with an empty whitelist     *)
(* exactly the discovered names; each is mapped to a kernel directory of   *)
(* the last kernel_dirs entry holding it (its merged path).                *)
(***************************************************************************)
C3_WhitelistFilters ==
    ret.op = "find" =>
      /\ whitelist # {} => DOMAIN ret.d \subseteq whitelist
      /\ DOMAIN ret.d = IF whitelist = {} THEN Discovered ELSE Discovered \cap whitelist
      /\ \A k \in DOMAIN ret.d : ret.d[k] \in KernelsNamed(kernel_dirs[Last(Holding(k))], k)

\* a whitelist that keeps one discovered kernel and drops another
C3_Witness ==
    /\ ret.op = "find" /\ whitelist = {ir}
    /\ Discovered = {ir, py} /\ DOMAIN ret.d = {ir}

(***************************************************************************)
(* C4: get_kernel_spec looks the name up case-insensitively in a mapping   *)
(* of find_kernel_specs: when a key equals the name up to case the spec is *)
(* loaded from the mapped directory, otherwise NoSuchKernel is raised and  *)
(* carries the name exactly as passed.                                     *)
(***************************************************************************)
C4_CaseInsensitiveLookup ==
    ret.op = "get" =>
      /\ ret.d \in find_kernel_specs(fs, kernel_dirs, whitelist)
      /\ \A k \in DOMAIN ret.d :
            EqIgnoreCase(k, ret.kernel_name) =>
               /\ ret.res.out # "NoSuchKernel"
               /\ ret.res = from_resource_dir(fs, ret.d[k])
               /\ ret.res.out = "ok" => ret.res.spec.resource_dir = ret.d[k]
      /\ (~\E k \in DOMAIN ret.d : EqIgnoreCase(k, ret.kernel_name)) =>
            ret.res = [out |-> "NoSuchKernel", name |-> ret.kernel_name]

\* a mixed-case name found under its lowercase key
C4_Witness ==
    /\ ret.op = "get" /\ ret.kernel_name = Ir
    /\ ret.res.out = "ok" /\ ret.res.spec.resource_dir = pjoin(SYSTEM_KERNELS, ir)

\* a mixed-case name that is not found, reported as it was passed
C4_WitnessNotFound ==
    /\ ret.op = "get" /\ ret.kernel_name = Ir /\ Discovered = {py}
    /\ ret.res = [out |-> "NoSuchKernel", name |-> Ir]

(***************************************************************************)
(* C2 as stated: whenever positions i < j of kernel_dirs both hold a       *)
(* kernel named n and no position after j does, find_kernel_specs maps n   *)
(* to a path under the directory at j.                                     *)
(***************************************************************************)
C2_Original ==
    ret.op = "find" =>
      \A n \in LowerNames : \A i, j \in Holding(n) :
         (i < j /\ j = Last(Holding(n))) =>
            /\ n \in DOMAIN ret.d
            /\ ret.d[n] \in KernelsNamed(kernel_dirs[j], n)

(***************************************************************************)
(* C2 amended: the same, provided the whitelist is empty or contains n;    *)
(* and a name the whitelist excludes is not mapped at all.                 *)
(***************************************************************************)
C2_LaterOverrides ==
    ret.op = "find" =>
      \A n \in LowerNames : \A i, j \in Holding(n) :
         (i < j /\ j = Last(Holding(n))) =>
            IF whitelist = {} \/ n \in whitelist
            THEN /\ n \in DOMAIN ret.d
                 /\ ret.d[n] \in KernelsNamed(kernel_dirs[j], n)
            ELSE n \notin DOMAIN ret.d

\* two different directories hold ir; the later one, which comes first in no
\* other order, is the one mapped
C2_Witness ==
    /\ ret.op = "find"
    /\ kernel_dirs = <<SYSTEM_KERNELS, user_kernel_dir>>
    /\ KernelDirAt(pjoin(SYSTEM_KERNELS, ir)) /\ KernelDirAt(pjoin(user_kernel_dir, ir))
    /\ ~KernelDirAt(pjoin(user_kernel_dir, IR))
    /\ ir \in DOMAIN ret.d /\ ret.d[ir] = pjoin(user_kernel_dir, ir)

(***************************************************************************)
(* C5 as stated: with an empty whitelist every kernel directory p that is  *)
(* an immediate child of a kernel_dirs entry is mapped, under the          *)
(* lowercase form of its name, to p, unless a later entry holds a kernel   *)
(* of the same lowercased name.                                            *)
(***************************************************************************)
C5_Original ==
    (ret.op = "find" /\ whitelist = {}) =>
      \A i \in DOMAIN kernel_dirs : \A p \in KernelsOf(kernel_dirs[i]) :
         (\A j \in Holding(p[Len(p)]) : j <= i) =>
            \E k \in DOMAIN ret.d :
               IsLowerCase(k) /\ EqIgnoreCase(k, p[Len(p)]) /\ ret.d[k] = p

(***************************************************************************)
(* C5 amended: ... unless a later entry, or another child of the same      *)
(* search directory, holds a kernel of the same lowercased name; among     *)
(* such children of one directory exactly one is mapped.                   *)
(***************************************************************************)
C5_EveryKernelMapped ==
    (ret.op = "find" /\ whitelist = {}) =>
      \A i \in DOMAIN kernel_dirs : \A p \in KernelsOf(kernel_dirs[i]) :
         (\A j \in Holding(p[Len(p)]) : j <= i) =>
            \E k \in DOMAIN ret.d :
               /\ IsLowerCase(k) /\ EqIgnoreCase(k, p[Len(p)])
               /\ ret.d[k] \in KernelsNamed(kernel_dirs[i], k)
               /\ KernelsNamed(kernel_dirs[i], k) = {p} => ret.d[k] = p

\* two kernels of one search directory, both mapped
C5_Witness ==
    /\ ret.op = "find" /\ whitelist = {}
    /\ KernelsOf(user_kernel_dir) = {pjoin(user_kernel_dir, IR), pjoin(user_kernel_dir, py)}
    /\ DOMAIN ret.d = {ir, py}
    /\ ret.d[ir] = pjoin(user_kernel_dir, IR) /\ ret.d[py] = pjoin(user_kernel_dir, py)

(***************************************************************************)
(* C7 as stated: with a non-empty whitelist a discovered kernel is kept    *)
(* whenever some whitelist entry equals its name ignoring case.            *)
(***************************************************************************)
C7_WhitelistIgnoresCase ==
    (ret.op = "find" /\ whitelist # {}) =>
      \A n \in Discovered :
         (\E w \in whitelist : EqIgnoreCase(w, n)) => n \in DOMAIN ret.d

(***************************************************************************)
(* C8 as stated, for the files whose recognized keys carry values of the   *)
(* types the format gives them: whenever kernel.json is a JSON object,     *)
(* over any keys, from_resource_dir(dir).to_dict() succeeds and returns    *)
(* exactly the keys argv, env, display_name, language: the file's value    *)
(* where the file has the key, the empty list / string / mapping where it  *)
(* has not.                                                                *)
(***************************************************************************)
SerializedKeys == {"argv", "env", "display_name", "language"}
EmptyValue == [argv |-> Val("list", 0), env |-> Val("dict", 0),
               display_name |-> Val("str", 0), language |-> Val("str", 0)]

C8_ToDictOfAnyObject ==
    LET f == pjoin(LoadDir, KERNEL_JSON)
    IN  (/\ ret.op = "load" /\ isfile(fs, f) /\ fs[f].data.parse = "object"
         /\ \A k \in SerializedKeys \cap DOMAIN fs[f].data.obj :
               fs[f].data.obj[k].t = EmptyValue[k].t) =>
          /\ ret.out = "ok"
          /\ DOMAIN ret.dict = SerializedKeys
          /\ \A k \in SerializedKeys :
                ret.dict[k] = IF k \in DOMAIN fs[f].data.obj
                              THEN fs[f].data.obj[k] ELSE EmptyValue[k]

(***************************************************************************)
(* C1: install_kernel_spec(src, kernel_name="Ir", user=True) with src a    *)
(* directory.  (1) With replace=False, the destination absent and          *)
(* user_kernel_dir no plain file, the call succeeds, the destination is    *)
(* <user_kernel_dir>/ir and its tree equals that of src.  (2) A call with  *)
(* replace=False right after a successful one fails with EEXIST and        *)
(* changes nothing.  (3) A call with replace=True after those two succeeds *)
(* and leaves the destination's tree equal to the tree src has at that     *)
(* call.                                                                   *)
(***************************************************************************)
C1_InstallTwiceThenReplace ==
    [][ret'.op = "install" =>
        LET n == Len(trail')
            c == trail'[n]
            src == c.source_dir.path
            dst == c.destination
        IN  (c.user /\ c.kernel_name = Ir /\ isdir(fs, src)) =>
              /\ dst = <<"user", ir>>
              /\ (~c.replace /\ dst \notin DOMAIN fs /\ ~isfile(fs, user_kernel_dir)) =>
                    /\ c.out = "ok"
                    /\ Tree(fs', dst) = Tree(fs, src)
              /\ (n >= 2 /\ ~c.replace /\ trail'[n - 1].out = "ok") =>
                    /\ c.out = "EEXIST"
                    /\ fs' = fs
              /\ (n >= 3 /\ c.replace
                    /\ ~trail'[n - 1].replace /\ trail'[n - 1].out = "EEXIST"
                    /\ ~trail'[n - 2].replace /\ trail'[n - 2].out = "ok") =>
                    /\ c.out = "ok"
                    /\ Tree(fs', dst) = Tree(fs, src)
    ]_vars

\* the three calls were made, the source was edited after the first of them,
\* and the destination holds the edited kernel.json and the logo
C1_Witness ==
    /\ ret.op = "install" /\ Len(trail) = 3 /\ trail[3] = ret.call
    /\ trail[1].user /\ ~trail[1].replace /\ trail[1].out = "ok"
    /\ ~trail[2].replace /\ trail[2].out = "EEXIST"
    /\ trail[3].replace /\ trail[3].out = "ok"
    /\ trail[3].destination = <<"user", ir>>
    /\ fs[<<"user", ir, KERNEL_JSON>>] = FileNode(DocB)
    /\ fs[<<"stage", Ir, KERNEL_JSON>>] = FileNode(DocB)
    /\ Tree(fs, <<"user", ir>>) = Tree(fs, <<"stage", Ir>>)

(***************************************************************************)
(* C9.  The case: the last install_kernel_spec call, c, was made with      *)
(* user=True and a kernel_name, it succeeded, nothing was installed since, *)
(* the installed directory holds kernel.json, user_kernel_dir is listed in *)
(* kernel_dirs, the whitelist is empty and no kernel_dirs entry after      *)
(* user_kernel_dir holds a kernel of the same lowercased name.             *)
(***************************************************************************)
JustInstalled(c) ==
    /\ trail = <<c>>
    /\ c.out = "ok" /\ c.user /\ c.kernel_name # NoName
    /\ isfile(fs, Append(c.source_dir.path, KERNEL_JSON))
    /\ whitelist = {}
    /\ \E i \in DOMAIN kernel_dirs :
          /\ kernel_dirs[i] = user_kernel_dir
          /\ \A j \in Holding(c.kernel_name) : j <= i \/ kernel_dirs[j] = user_kernel_dir

\* what C9 promises of the discovery calls that follow: find_kernel_specs
\* maps the lowercase name to <user_kernel_dir>/<lowercase name>, and
\* get_kernel_spec of the name, in any casing, returns the spec of that directory
DiscoveredWhereInstalled(c) ==
    /\ Len(c.destination) = 2 /\ c.destination[1] = "user"
    /\ IsLowerCase(c.destination[2]) /\ EqIgnoreCase(c.destination[2], c.kernel_name)
    /\ ret.op = "find" =>
          /\ c.destination[2] \in DOMAIN ret.d
          /\ ret.d[c.destination[2]] = c.destination
    /\ (ret.op = "get" /\ EqIgnoreCase(ret.kernel_name, c.kernel_name)) =>
          /\ ret.res.out # "NoSuchKernel"
          /\ ret.res = from_resource_dir(fs, c.destination)
          /\ ret.res.out = "ok" => ret.res.spec.resource_dir = c.destination

\* C9 as stated
C9_Original ==
    \A c \in {trail[i] : i \in DOMAIN trail} : JustInstalled(c) => DiscoveredWhereInstalled(c)

(***************************************************************************)
(* C9 amended: ... and no other entry of user_kernel_dir has the same      *)
(* lowercased name as the installed directory.                             *)
(***************************************************************************)
C9_DiscoveryNeverStale ==
    \A c \in {trail[i] : i \in DOMAIN trail} :
       (JustInstalled(c) /\ KernelsNamed(user_kernel_dir, c.kernel_name) \subseteq {c.destination})
          => DiscoveredWhereInstalled(c)

\* IR was installed over an older copy and the next get_kernel_spec("Ir")
\* loads the new directory, although the system directory holds ir too
C9_Witness ==
    /\ trail # <<>> /\ JustInstalled(trail[1])
    /\ trail[1].kernel_name = IR /\ trail[1].replace
    /\ kernel_dirs = <<SYSTEM_KERNELS, user_kernel_dir>>
    /\ KernelDirAt(pjoin(SYSTEM_KERNELS, ir))
    /\ ret.op = "get" /\ ret.kernel_name = Ir
    /\ ret.res.out = "ok" /\ ret.res.spec.resource_dir = <<"user", ir>>

(***************************************************************************)
(* C10 as stated: every install_kernel_spec call computes a destination    *)
(* that is a strict child, with a lowercase name, of the kernels directory *)
(* it installs into; nothing outside the destination is removed or         *)
(* altered; every other kernel directory keeps its tree; and with          *)
(* replace=False nothing that existed is removed or altered.               *)
(***************************************************************************)
C10_TouchesOnlyDestination ==
    [][ret'.op = "install" =>
        LET c == ret'.call
            dst == c.destination
            root == IF c.user THEN user_kernel_dir ELSE SYSTEM_KERNELS
        IN  /\ Len(dst) = Len(root) + 1 /\ IsPrefix(root, dst) /\ IsLowerCase(dst[Len(dst)])
            /\ \A p \in DOMAIN fs : ~IsPrefix(dst, p) => (p \in DOMAIN fs' /\ fs'[p] = fs[p])
            /\ \A r \in {user_kernel_dir, SYSTEM_KERNELS} : \A q \in KernelsOf(r) :
                  q # dst => Tree(fs', q) = Tree(fs, q)
            /\ ~c.replace => \A p \in DOMAIN fs : p \in DOMAIN fs' /\ fs'[p] = fs[p]
    ]_vars

====
